---- MODULE Spec2Model ----
(***************************************************************************)
(* Equipment asset management: the depreciation calculator                 *)
(* (scripts/calculate-cost.py), the health scorer                          *)
(* (scripts/health-diagnose.py) and the GitHub sync client                 *)
(* (scripts/github-sync.py).                                               *)
(*                                                                         *)
(* Numbers.  Python computes in binary floating point; the model computes  *)
(* in exact rationals <<n, d>> (d > 0, lowest terms).  Money is counted in *)
(* cents, rates in percent, benchmark thresholds in tenths of a yuan.      *)
(* round(x, k) is "the nearest multiple of 10^-k"; where the exact value   *)
(* lies half-way between two of them, Python's answer depends on the       *)
(* binary representation error of x, so the model allows either neighbour. *)
(***************************************************************************)
EXTENDS Integers, Sequences, FiniteSets, TLC

VARIABLES device, today, calc, output, health, report,
          args, pc, user_ok, requests, sha, exit_code

vars == <<device, today, calc, output, health, report,
          args, pc, user_ok, requests, sha, exit_code>>

calcVars == <<device, today, calc, output, health, report>>
syncVars == <<args, pc, user_ok, requests, sha, exit_code>>

(***************************************************************************)
(* Bounds of the model.                                                    *)
(***************************************************************************)
\* Reference dates range over BaseYear .. BaseYear + MaxYears.
MaxYears == 5

BaseYear == 2025

(***************************************************************************)
(* Exact arithmetic.                                                       *)
(***************************************************************************)
Abs(x) == IF x < 0 THEN -x ELSE x

RECURSIVE GCD(_, _)
GCD(a, b) == IF b = 0 THEN a ELSE GCD(b, a % b)

\* The rational n/d (d # 0) in lowest terms with a positive denominator.
Rat(n, d) ==
    LET g == GCD(Abs(n), Abs(d))
        s == IF d < 0 THEN -1 ELSE 1
    IN  <<(s * n) \div g, (s * d) \div g>>

Num(q) == q[1]
Den(q) == q[2]
OfInt(i) == <<i, 1>>

RAdd(p, q) == Rat(p[1] * q[2] + q[1] * p[2], p[2] * q[2])
RSub(p, q) == Rat(p[1] * q[2] - q[1] * p[2], p[2] * q[2])
RMul(p, q) ==
    LET g1 == GCD(Abs(p[1]), q[2])
        g2 == GCD(Abs(q[1]), p[2])
    IN  Rat((p[1] \div g1) * (q[1] \div g2), (p[2] \div g2) * (q[2] \div g1))
RDiv(p, q) == RMul(p, Rat(q[2], q[1]))
RLt(p, q) == p[1] * q[2] < q[1] * p[2]
RLeq(p, q) == p[1] * q[2] <= q[1] * p[2]

\* Python's round(x, k) of x = n/d >= 0 counted in units of 10^-k, given
\* x * 10^k = n/d: the nearest integers (both neighbours on an exact tie).
Round(n, d) ==
    LET q == n \div d
        r == n % d
    IN  IF 2 * r < d THEN {q}
        ELSE IF 2 * r > d THEN {q + 1}
        ELSE {q, q + 1}

\* round(x + y, k) for x, y >= 0 given as rationals in units of 10^-k.  The
\* integer and fractional parts are added separately to keep the products
\* small.
RoundSum(x, y) ==
    LET xi == x[1] \div x[2]
        yi == y[1] \div y[2]
        f  == RAdd(<<x[1] % x[2], x[2]>>, <<y[1] % y[2], y[2]>>)
    IN  {xi + yi + r : r \in Round(f[1], f[2])}

(***************************************************************************)
(* Calendar dates, as datetime.strptime(s, "%Y-%m-%d") reads them.  A date *)
(* string is the triple <<year, month, day>>.                              *)
(***************************************************************************)
IsLeap(y) == (y % 4 = 0) /\ ((y % 100 # 0) \/ (y % 400 = 0))

DaysInMonth(y, m) ==
    IF m = 2 THEN (IF IsLeap(y) THEN 29 ELSE 28)
    ELSE IF m \in {4, 6, 9, 11} THEN 30 ELSE 31

RECURSIVE DaysBeforeMonth(_, _)
DaysBeforeMonth(y, m) ==
    IF m = 1 THEN 0 ELSE DaysBeforeMonth(y, m - 1) + DaysInMonth(y, m - 1)

DaysBeforeYear(y) ==
    LET p == y - 1
    IN  p * 365 + (p \div 4) - (p \div 100) + (p \div 400)

\* strptime raises ValueError on a string that is no calendar date.
ValidDate(s) ==
    /\ s[1] \in 1..9999
    /\ s[2] \in 1..12
    /\ s[3] \in 1..DaysInMonth(s[1], s[2])

\* The day number of a valid date (date.toordinal()).
ToOrdinal(s) == DaysBeforeYear(s[1]) + DaysBeforeMonth(s[1], s[2]) + s[3]

(***************************************************************************)
(* calculate-cost.py: calculate(purchase_date, price, today).              *)
(* price is in cents.  The result is a set: one record, or two where a     *)
(* rounding is an exact tie.                                               *)
(***************************************************************************)
None == [kind |-> "none"]
Raised(exc) == [kind |-> "error", exc |-> exc]

\* Lines 29-32: (today - purchase).days, clamped to 1.
ClampDaysWrong(days) == IF days < 0 THEN 1 ELSE days
ClampDays(days) == IF days <= 0 THEN 1 ELSE days

\* Lines 35-57: the band of years = days_used / 365.
CalcBandWrong(days_used) ==
    LET years == Rat(days_used, 365)
    IN  IF RLeq(years, OfInt(1)) THEN [rate |-> 80, status |-> "new", emoji |-> "green"]
        ELSE IF RLeq(years, OfInt(2)) THEN [rate |-> 65, status |-> "growing", emoji |-> "green"]
        ELSE IF RLeq(years, OfInt(3)) THEN [rate |-> 50, status |-> "mature", emoji |-> "yellow"]
        ELSE IF RLeq(years, OfInt(4)) THEN [rate |-> 35, status |-> "aging", emoji |-> "yellow"]
        ELSE [rate |-> 20, status |-> "old", emoji |-> "red"]
CalcBand(days_used) ==
    LET years == Rat(days_used, 365)
    IN  IF RLt(years, OfInt(1)) THEN [rate |-> 80, status |-> "new", emoji |-> "green"]
        ELSE IF RLt(years, OfInt(2)) THEN [rate |-> 65, status |-> "growing", emoji |-> "green"]
        ELSE IF RLt(years, OfInt(3)) THEN [rate |-> 50, status |-> "mature", emoji |-> "yellow"]
        ELSE IF RLt(years, OfInt(4)) THEN [rate |-> 35, status |-> "aging", emoji |-> "yellow"]
        ELSE [rate |-> 20, status |-> "old", emoji |-> "red"]

\* Line 71: the returned daily_cost, in cents, of price / days_used.
ReturnedDailyCostWrong(price, days_used) == {price \div days_used}
ReturnedDailyCost(price, days_used) == Round(price, days_used)

\* Lines 59, 72: the returned residual_value, in cents, of price * rate.
ReturnedResidualWrong(price, rate) == {(price * rate) \div 100}
ReturnedResidual(price, rate) == Round(price * rate, 100)

calculate(purchase_date, price, ref) ==
    IF ~ValidDate(purchase_date) THEN {Raised("ValueError")}
    ELSE
      LET days_used  == ClampDays(ToOrdinal(ref) - ToOrdinal(purchase_date))
          band       == CalcBand(IF days_used = 0 THEN 1 ELSE days_used)
          residual   == Rat(price * band.rate, 10000)          \* yuan
          sell_min   == RMul(residual, Rat(7, 10))
          sell_mid   == RMul(residual, Rat(17, 20))
          sell_max   == residual
      IN  IF days_used = 0 THEN {Raised("ZeroDivisionError")}     \* line 34
          ELSE
          { [kind           |-> "ok",
             purchase_date  |-> purchase_date,
             price          |-> price,
             days_used      |-> days_used,
             years_used     |-> yu,
             daily_cost     |-> dc,
             residual_value |-> rv,
             residual_rate  |-> band.rate,
             status         |-> band.status,
             status_emoji   |-> band.emoji,
             sell_price_suggested |-> sp,
             sell_price_range     |-> <<lo, hi>>] :
            yu \in Round(days_used * 100, 365),
            dc \in ReturnedDailyCost(price, days_used),
            rv \in ReturnedResidual(price, band.rate),
            sp \in Round(Num(sell_mid), Den(sell_mid)),
            lo \in Round(Num(sell_min), Den(sell_min)),
            hi \in Round(Num(sell_max), Den(sell_max)) }

(***************************************************************************)
(* health-diagnose.py.  The keys of INDUSTRY_BENCHMARKS are Chinese words  *)
(* in the source; they are written here in pinyin.  low and high are in    *)
(* tenths of a yuan (low10, high10).                                       *)
(***************************************************************************)
Bench(l, h, y) == [low10 |-> l, high10 |-> h, lifespan_years |-> y]

BenchmarkKeys ==
    {"dian_nao", "shou_ji", "ping_ban", "ke_chuan_dai", "zhi_neng_jia_ju",
     "you_xi_she_bei", "EV_pei_jian", "che_liang", "default"}

INDUSTRY_BENCHMARKS ==
    [k \in BenchmarkKeys |->
        CASE k = "dian_nao"        -> Bench(150, 350, 4)
          [] k = "shou_ji"         -> Bench(50, 150, 3)
          [] k = "ping_ban"        -> Bench(20, 80, 4)
          [] k = "ke_chuan_dai"    -> Bench(10, 40, 3)
          [] k = "zhi_neng_jia_ju" -> Bench(5, 30, 5)
          [] k = "you_xi_she_bei"  -> Bench(20, 80, 5)
          [] k = "EV_pei_jian"     -> Bench(50, 150, 6)
          [] k = "che_liang"       -> Bench(2000, 5000, 8)
          [] k = "default"         -> Bench(10, 100, 3)]

\* RESIDUAL_RATES: <<min_yr, max_yr, rate>>, in the dict's order; the last
\* band has no upper end (float('inf')), written as max_yr = -1.
RESIDUAL_RATES ==
    << <<0, 1, 80>>, <<1, 2, 65>>, <<2, 3, 50>>, <<3, 4, 35>>, <<4, -1, 20>> >>

\* dict.get(key, default) on a record that may lack the key.
Get(d, key, default) == IF key \in DOMAIN d THEN d[key] ELSE default

\* Lines 40-45: (base_date - purchase_date).days for a valid date string.
calculate_days_used(purchase_date_str, base_date) ==
    ToOrdinal(base_date) - ToOrdinal(purchase_date_str)

\* Lines 47-52.
RECURSIVE RateFrom(_, _)
RateFrom(i, years) ==
    IF i > Len(RESIDUAL_RATES) THEN 20
    ELSE LET b == RESIDUAL_RATES[i]
         IN  IF /\ RLeq(OfInt(b[1]), years)
                /\ (b[2] = -1 \/ RLt(years, OfInt(b[2])))
             THEN b[3]
             ELSE RateFrom(i + 1, years)

get_residual_rate(years) == RateFrom(1, years)

\* Lines 70-72.
BenchmarkOfWrong(dev) == INDUSTRY_BENCHMARKS["default"]
BenchmarkOf(dev) ==
    LET category == Get(dev, "category", "default")
    IN  IF category \in DOMAIN INDUSTRY_BENCHMARKS
        THEN INDUSTRY_BENCHMARKS[category]
        ELSE INDUSTRY_BENCHMARKS["default"]

\* Lines 76-81; daily_cost is the unrounded price / days_used, in yuan.
CostScoreWrong(daily_cost, benchmark) ==
    LET low  == Rat(benchmark.low10, 10)
        high == Rat(benchmark.high10, 10)
    IN  IF RLeq(daily_cost, low) THEN OfInt(40)
        ELSE IF RLeq(high, daily_cost) THEN OfInt(0)
        ELSE RSub(OfInt(40),
                  RMul(RDiv(RSub(daily_cost, low), RSub(high, low)), OfInt(30)))
CostScoreSteep(daily_cost, benchmark) ==
    LET low  == Rat(benchmark.low10, 10)
        high == Rat(benchmark.high10, 10)
    IN  IF RLeq(daily_cost, low) THEN OfInt(40)
        ELSE IF RLeq(high, daily_cost) THEN OfInt(10)
        ELSE RSub(OfInt(40),
                  RMul(RDiv(RSub(daily_cost, low), RSub(high, low)), OfInt(40)))
CostScore(daily_cost, benchmark) ==
    LET low  == Rat(benchmark.low10, 10)
        high == Rat(benchmark.high10, 10)
    IN  IF RLeq(daily_cost, low) THEN OfInt(40)
        ELSE IF RLeq(high, daily_cost) THEN OfInt(10)
        ELSE RSub(OfInt(40),
                  RMul(RDiv(RSub(daily_cost, low), RSub(high, low)), OfInt(30)))

\* Lines 84-90.
AgeScoreShallow(years_used, benchmark) ==
    LET lifespan_ratio == RDiv(years_used, OfInt(benchmark.lifespan_years))
    IN  IF RLeq(lifespan_ratio, Rat(1, 2)) THEN OfInt(30)
        ELSE IF RLeq(Rat(3, 2), lifespan_ratio) THEN OfInt(5)
        ELSE RSub(OfInt(30), RMul(RSub(lifespan_ratio, Rat(1, 2)), OfInt(20)))
AgeScore(years_used, benchmark) ==
    LET lifespan_ratio == RDiv(years_used, OfInt(benchmark.lifespan_years))
    IN  IF RLeq(lifespan_ratio, Rat(1, 2)) THEN OfInt(30)
        ELSE IF RLeq(Rat(3, 2), lifespan_ratio) THEN OfInt(5)
        ELSE RSub(OfInt(30), RMul(RSub(lifespan_ratio, Rat(1, 2)), OfInt(25)))

\* Lines 93-99.
StatusScoreNoDefault(dev) ==
    LET status == Get(dev, "status", "")
    IN  IF status = "active" THEN 30
        ELSE IF status = "idle" THEN 15
        ELSE 5
StatusScoreSwapped(dev) ==
    LET status == Get(dev, "status", "active")
    IN  IF status = "active" THEN 15
        ELSE IF status = "idle" THEN 30
        ELSE 5
StatusScore(dev) ==
    LET status == Get(dev, "status", "active")
    IN  IF status = "active" THEN 30
        ELSE IF status = "idle" THEN 15
        ELSE 5

\* Lines 101, 110: round(cost_score + age_score + status_score, 1), in tenths.
HealthScoreWeighted(cost_score, age_score, status_score) ==
    RoundSum(RAdd(RMul(cost_score, OfInt(4)), OfInt(3 * status_score)),
             RMul(age_score, OfInt(3)))
HealthScore(cost_score, age_score, status_score) ==
    RoundSum(RAdd(RMul(cost_score, OfInt(10)), OfInt(10 * status_score)),
             RMul(age_score, OfInt(10)))

\* Lines 104-105: device["id"] and device["name"] raise KeyError.
ReturnKeysMissingWrong(dev) == "id" \notin DOMAIN dev
ReturnKeysMissing(dev) == "id" \notin DOMAIN dev \/ "name" \notin DOMAIN dev

\* Lines 54-112.  A missing key raises KeyError, a malformed date
\* ValueError, in the order the source evaluates them.  cost_score,
\* age_score and status_score are the call's local variables, kept in the
\* record beside the returned fields.
calculate_health_score(dev, base_date) ==
    IF "purchase_date" \notin DOMAIN dev THEN {Raised("KeyError")}
    ELSE IF ~ValidDate(dev["purchase_date"]) THEN {Raised("ValueError")}
    ELSE IF "price" \notin DOMAIN dev THEN {Raised("KeyError")}
    ELSE
      LET days_used     == ClampDays(calculate_days_used(dev["purchase_date"], base_date))
          years_used    == Rat(days_used * 4, 1461)
          daily_cost    == Rat(dev["price"], 100 * (IF days_used = 0 THEN 1 ELSE days_used))
          residual_rate == get_residual_rate(years_used)
          benchmark     == BenchmarkOf(dev)
          cost_score    == CostScore(daily_cost, benchmark)
          age_score     == AgeScore(years_used, benchmark)
          status_score  == StatusScore(dev)
      IN  IF days_used = 0 THEN {Raised("ZeroDivisionError")}     \* line 67
          ELSE IF ReturnKeysMissing(dev) THEN {Raised("KeyError")}
          ELSE
            { [kind           |-> "ok",
               device_id      |-> dev["id"],
               name           |-> Get(dev, "name", ""),    \* present here: line 105
               daily_cost     |-> dc,
               years_used     |-> yu,
               residual_rate  |-> residual_rate,
               residual_value |-> rv,
               health_score   |-> hs,
               benchmark      |-> benchmark,
               days_used      |-> days_used,
               cost_score     |-> cost_score,
               age_score      |-> age_score,
               status_score   |-> status_score] :
              dc \in Round(dev["price"], days_used),
              yu \in Round(days_used * 40, 1461),
              rv \in Round(dev["price"] * residual_rate, 100),
              hs \in HealthScore(cost_score, age_score, status_score) }

\* Lines 114-125; score in tenths.
generate_health_rating_wrong(score) ==
    IF score > 850 THEN <<"epic", "continue", "use_until_it_dies">>
    ELSE IF score >= 700 THEN <<"excellent", "continue", "keep_using">>
    ELSE IF score >= 550 THEN <<"good", "monitor", "watch_maintenance">>
    ELSE IF score >= 400 THEN <<"fair", "evaluate", "evaluate_replacement">>
    ELSE <<"replace", "replace", "sell_or_upgrade">>
generate_health_rating(score) ==
    IF score >= 850 THEN <<"epic", "continue", "use_until_it_dies">>
    ELSE IF score >= 700 THEN <<"excellent", "continue", "keep_using">>
    ELSE IF score >= 550 THEN <<"good", "monitor", "watch_maintenance">>
    ELSE IF score >= 400 THEN <<"fair", "evaluate", "evaluate_replacement">>
    ELSE <<"replace", "replace", "sell_or_upgrade">>

(***************************************************************************)
(* The registry and the run's reference date.                              *)
(***************************************************************************)
\* Prices in cents.
Prices == {0, 9999, 220000, 221200, 894400, 2000000}

\* <<2025, 2, 30>> is no calendar date.
PurchaseDates == {<<2025, 3, 7>>, <<2024, 5, 16>>, <<2025, 2, 30>>}

\* The category tags of registry records: the keys of cat_names other than
\* the catch-all "other".
RegistryCategories == {"computer", "phone", "tablet", "wearable", "smart-home"}

Categories == {"dian_nao", "computer"}

Statuses == {"active", "idle", "retired"}

Fields == {"id", "name", "category", "purchase_date", "price", "status"}

FullDevices ==
    { [f \in Fields |->
         CASE f = "id"            -> "001"
           [] f = "name"          -> "MacBook"
           [] f = "category"      -> c
           [] f = "purchase_date" -> d
           [] f = "price"         -> p
           [] f = "status"        -> s] :
      c \in Categories, d \in PurchaseDates, p \in Prices, s \in Statuses }

\* A record of the registry: every field, or all but one.
Devices ==
    FullDevices \cup
    { [f \in Fields \ {g} |-> dev[f]] : dev \in FullDevices, g \in Fields }

RefDates ==
    { <<y, 3, d>> : y \in BaseYear..(BaseYear + MaxYears), d \in {6, 7, 8} }
        \cup { <<2026, 4, 11>> }

\* --category: "" is no filter.
CategoryFilters == {"", "computer"}

(***************************************************************************)
(* calculate-cost.py main, lines 150-165 and 216-228, over a registry of   *)
(* one record.                                                             *)
(***************************************************************************)
\* Line 160: {**item, **calc}.
Merge(item, c) ==
    LET keys == DOMAIN c \ {"kind"}
    IN  [f \in (DOMAIN item) \cup keys |-> IF f \in keys THEN c[f] ELSE item[f]]

OutputData(results, total_price, total_residual) ==
    [kind |-> "ok",
     meta |-> [calculated_at   |-> today,
               total_equipment |-> Len(results),
               total_price     |-> total_price,
               total_residual  |-> total_residual],
     equipment |-> results]

RunCalculateCost(filter) ==
    /\ output = None
    /\ IF filter # "" /\ Get(device, "category", "") # filter
       THEN /\ calc' = calc
            /\ output' = OutputData(<< >>, 0, 0)
       ELSE IF "purchase_date" \notin DOMAIN device \/ "price" \notin DOMAIN device
       THEN /\ calc' = calc
            /\ output' = Raised("KeyError")
       ELSE \E c \in calculate(device["purchase_date"], device["price"], today) :
            /\ calc' = c
            /\ output' = IF c.kind = "error" THEN Raised(c.exc)
                         ELSE OutputData(<<Merge(device, c)>>, device["price"],
                                         c.residual_value)
    /\ UNCHANGED <<device, today, health, report>>
    /\ UNCHANGED syncVars

(***************************************************************************)
(* health-diagnose.py generate_report, lines 136-149 and 211-213, over a   *)
(* registry of one record.                                                 *)
(***************************************************************************)
Rated(h) ==
    LET r == generate_health_rating(h.health_score)
    IN  [f \in (DOMAIN h) \cup {"rating", "action", "advice"} |->
            CASE f = "rating" -> r[1]
              [] f = "action" -> r[2]
              [] f = "advice" -> r[3]
              [] OTHER        -> h[f]]

SellCandidates(results) == SelectSeq(results, LAMBDA r : r.action = "replace")

generate_report ==
    /\ report = None
    /\ \E h \in calculate_health_score(device, today) :
        /\ health' = h
        /\ report' =
             IF h.kind = "error" THEN Raised(h.exc)
             ELSE LET results == <<Rated(h)>>
                  IN  [kind |-> "ok",
                       results |-> results,
                       sell_candidates |-> SellCandidates(results)]
    /\ UNCHANGED <<device, today, calc, output>>
    /\ UNCHANGED syncVars

NoArgs == [mode |-> "none"]

Init ==
    /\ device \in Devices
    /\ today \in RefDates
    /\ calc = None
    /\ output = None
    /\ health = None
    /\ report = None
    /\ args = NoArgs
    /\ pc = "idle"
    /\ user_ok = FALSE
    /\ requests = << >>
    /\ sha = ""
    /\ exit_code = -1

Next ==
    \/ \E filter \in CategoryFilters : RunCalculateCost(filter)
    \/ generate_report

Spec == Init /\ [][Next]_vars

(***************************************************************************)
(* github-sync.py.  A run issues requests one after another; the remote's  *)
(* answer to each is any of Answers.  requests is the log of the requests  *)
(* issued so far, each with the answer it got.                             *)
(*                                                                         *)
(* The source of main ends at line 225, inside the handler of the gist     *)
(* update.  What main does from there on (the handlers' bodies, the gist   *)
(* creation branch, the repository branch, the exit status) is modelled    *)
(* from the specification, sections 5 and 7: a failed call aborts the sync *)
(* step and the run exits non-zero.                                        *)
(***************************************************************************)
\* HTTP status of an answer; 0 is no answer within the timeout (URLError).
HttpStatuses == {200, 401, 403, 404, 500, 0}

\* The content hash of a 200 answer to a contents read; "" is an answer
\* without one.
Shas == {"", "a1", "b2"}

Answers == [status : HttpStatuses, sha : Shas]

\* Lines 41-48: urlopen returns the body, or raises; an HTTPError is
\* printed and re-raised, any other exception passes through.
_request(answer) ==
    IF answer.status = 200 THEN "ok"
    ELSE IF answer.status = 0 THEN "URLError"
    ELSE "HTTPError"

\* A request as logged: sha is the content hash it carries ("" for none),
\* status the answer's, got the content hash of a 200 answer.
Req(method, endpoint, s, answer) ==
    [method |-> method, endpoint |-> endpoint, sha |-> s,
     status |-> answer.status,
     got |-> IF answer.status = 200 THEN answer.sha ELSE ""]

SyncArgs ==
    [mode : {"gist", "repo"}, gist_id : {"", "g1"},
     format : {"markdown", "json"}, token : {"", "tok"},
     registry_exists : BOOLEAN]

\* Lines 179-197: the token and the registry file.
SyncStart ==
    /\ pc = "start"
    /\ IF args.token = "" \/ ~args.registry_exists
       THEN pc' = "done" /\ exit_code' = 1
       ELSE pc' = "verify" /\ exit_code' = exit_code
    /\ UNCHANGED <<args, user_ok, requests, sha>>
    /\ UNCHANGED calcVars

\* Lines 204-205: where main goes after get_user raised.
AfterVerifyFailure == "sync"

\* Lines 199-205 (get_user: lines 50-58).
VerifyToken(answer) ==
    /\ pc = "verify"
    /\ requests' = Append(requests, Req("GET", "/user", "", answer))
    /\ IF _request(answer) = "ok"
       THEN user_ok' = TRUE /\ pc' = "sync"
       ELSE user_ok' = FALSE /\ pc' = AfterVerifyFailure
    /\ UNCHANGED <<args, sha, exit_code>>
    /\ UNCHANGED calcVars

\* What main does when the sync step raised, and when it returned.
OnSyncFailure == 1
OnSyncSuccess == 0

\* Lines 216-225 (update_gist: lines 73-82; create_gist: lines 60-71).
SyncGist(answer) ==
    /\ pc = "sync"
    /\ args.mode = "gist"
    /\ requests' =
         Append(requests,
                IF args.gist_id # ""
                THEN Req("PATCH", "/gists/id", "", answer)
                ELSE Req("POST", "/gists", "", answer))
    /\ exit_code' = IF _request(answer) = "ok" THEN OnSyncSuccess ELSE OnSyncFailure
    /\ pc' = "done"
    /\ UNCHANGED <<args, user_ok, sha>>
    /\ UNCHANGED calcVars

\* Lines 95-102: what sync_to_repo does with the answer to its read:
\* <<goes on to the write, the sha it holds>>.
AfterReadAnyHttpError(answer) ==
    IF _request(answer) = "ok" THEN <<TRUE, answer.sha>>
    ELSE IF _request(answer) = "HTTPError" THEN <<TRUE, "">>
    ELSE <<FALSE, "">>
AfterRead(answer) ==
    IF _request(answer) = "ok" THEN <<TRUE, answer.sha>>
    ELSE IF _request(answer) = "HTTPError" /\ answer.status = 404 THEN <<TRUE, "">>
    ELSE <<FALSE, "">>

\* sync_to_repo, lines 95-102: the read of the target file.
RepoRead(answer) ==
    /\ pc = "sync"
    /\ args.mode = "repo"
    /\ requests' = Append(requests, Req("GET", "/repos/contents", "", answer))
    /\ IF AfterRead(answer)[1]
       THEN /\ sha' = AfterRead(answer)[2]
            /\ pc' = "write"
            /\ exit_code' = exit_code
       ELSE /\ sha' = sha
            /\ pc' = "done"
            /\ exit_code' = OnSyncFailure
    /\ UNCHANGED <<args, user_ok>>
    /\ UNCHANGED calcVars

\* sync_to_repo, lines 104-112: the write, with the sha when there is one.
RepoWrite(answer) ==
    /\ pc = "write"
    /\ requests' = Append(requests, Req("PUT", "/repos/contents", sha, answer))
    /\ exit_code' = IF _request(answer) = "ok" THEN OnSyncSuccess ELSE OnSyncFailure
    /\ pc' = "done"
    /\ UNCHANGED <<args, user_ok, sha>>
    /\ UNCHANGED calcVars

SyncInit ==
    /\ device \in {dev \in FullDevices :
                     /\ dev["price"] = 894400
                     /\ dev["purchase_date"] = <<2025, 3, 7>>
                     /\ dev["category"] = "computer"
                     /\ dev["status"] = "active"}
    /\ today = <<2026, 4, 11>>
    /\ calc = None
    /\ output = None
    /\ health = None
    /\ report = None
    /\ args \in SyncArgs
    /\ pc = "start"
    /\ user_ok = FALSE
    /\ requests = << >>
    /\ sha = ""
    /\ exit_code = -1

SyncNext ==
    \/ SyncStart
    \/ \E answer \in Answers :
         \/ VerifyToken(answer)
         \/ SyncGist(answer)
         \/ RepoRead(answer)
         \/ RepoWrite(answer)

SyncSpec == SyncInit /\ [][SyncNext]_vars

(***************************************************************************)
(* Properties.                                                             *)
(***************************************************************************)
HasValidDate == "purchase_date" \in DOMAIN device /\ ValidDate(device["purchase_date"])

\* Whole days from the purchase date to the reference date.
DaysBetween == ToOrdinal(today) - ToOrdinal(device["purchase_date"])

Max(a, b) == IF a >= b THEN a ELSE b

\* C1: for every valid purchase date and reference date, also a purchase
\* date on or after the reference date, calculate and
\* calculate_health_score both work with days_used = max(1, whole days from
\* purchase to reference), which is at least 1, and neither raises
\* ZeroDivisionError (a valid date makes calculate raise nothing at all).
C1_DaysUsedClamped ==
    /\ calc.kind = "ok" =>
         calc.days_used >= 1 /\ calc.days_used = Max(1, DaysBetween)
    /\ (calc.kind = "error" /\ HasValidDate) => FALSE
    /\ health.kind = "ok" =>
         health.days_used >= 1 /\ health.days_used = Max(1, DaysBetween)
    /\ health.kind = "error" => health.exc # "ZeroDivisionError"

\* The purchase date is the reference date and both calls have returned.
C1_Witness ==
    /\ calc.kind = "ok" /\ health.kind = "ok"
    /\ DaysBetween = 0
    /\ calc.days_used = 1 /\ health.days_used = 1

\* The band of the source's table for a day count, in whole days.
BandRate(days) ==
    IF days < 365 THEN 80
    ELSE IF days < 730 THEN 65
    ELSE IF days < 1095 THEN 50
    ELSE IF days < 1460 THEN 35
    ELSE 20

\* C2: calculate's residual_rate is the five-band step function of
\* years_used = days_used / 365, each band closed on its lower bound (365
\* days give 0.65, and so do 400 days: 8944 gives 5813.6), and for a fixed
\* purchase date a later reference date never gives a higher rate.
C2_ResidualBands ==
    calc.kind = "ok" =>
      /\ calc.residual_rate = BandRate(calc.days_used)
      /\ (calc.days_used = 400 /\ calc.price = 894400) =>
            calc.residual_rate = 65 /\ calc.residual_value = 581360
      /\ \A t \in RefDates :
           ToOrdinal(t) >= ToOrdinal(today) =>
             \A c \in calculate(device["purchase_date"], device["price"], t) :
                c.residual_rate <= calc.residual_rate

\* Exactly one year (365 days) after the purchase: the second band.
C2_Witness ==
    /\ calc.kind = "ok"
    /\ calc.days_used = 365
    /\ calc.residual_rate = 65

\* C3 as stated: for price >= 0 and purchase_date <= reference_date the
\* daily_cost of calculate's result equals price / days_used.
C3_DailyCostExact ==
    (calc.kind = "ok" /\ DaysBetween >= 0) =>
        calc.daily_cost * calc.days_used = calc.price

\* C3 as amended: for price >= 0 and purchase_date <= reference_date the
\* daily_cost of calculate's result is price / days_used rounded to two
\* decimals (within half a cent of it), days_used being the clamped day
\* count of the same result.
C3_DailyCostRounded ==
    (calc.kind = "ok" /\ DaysBetween >= 0) =>
        /\ calc.days_used >= 1
        /\ 2 * Abs(calc.daily_cost * calc.days_used - calc.price) <= calc.days_used

\* A result whose daily_cost was rounded up.
C3_Witness ==
    /\ calc.kind = "ok"
    /\ DaysBetween >= 0
    /\ calc.daily_cost * calc.days_used > calc.price

\* C4 as stated: the residual_value of calculate's result equals
\* price * residual_rate exactly, with no rounding inside the calculator.
C4_ResidualExact ==
    calc.kind = "ok" =>
        calc.residual_value * 100 = calc.price * calc.residual_rate

\* C4 as amended: the residual_value of calculate's result is
\* price * residual_rate rounded to two decimals inside the calculator
\* (within half a cent of the product), with the residual_rate of the same
\* result.
C4_ResidualRounded ==
    calc.kind = "ok" =>
        2 * Abs(calc.residual_value * 100 - calc.price * calc.residual_rate) <= 100

\* A result whose residual_value was rounded up.
C4_Witness ==
    /\ calc.kind = "ok"
    /\ calc.residual_value * 100 > calc.price * calc.residual_rate

\* The integer part and the fractional part of a rational >= 0.
Floor(q) == q[1] \div q[2]
Frac(q) == <<q[1] % q[2], q[2]>>

\* C5: health_score is cost_score + age_score + status_score rounded to one
\* decimal (within 0.05 of the sum, nothing else applied) and lies in
\* [5, 100].
C5_HealthScoreIsSum ==
    health.kind = "ok" =>
      LET x == RAdd(RMul(health.cost_score, OfInt(10)),
                    OfInt(10 * health.status_score))
          y == RMul(health.age_score, OfInt(10))
          i == Floor(x) + Floor(y)
          f == RAdd(Frac(x), Frac(y))
          e == (health.health_score - i) * f[2] - f[1]
      IN  /\ 2 * Abs(e) <= f[2]
          /\ health.health_score >= 50
          /\ health.health_score <= 1000

\* A score whose sum has both interpolated components.
C5_Witness ==
    /\ health.kind = "ok"
    /\ Den(health.cost_score) > 1
    /\ Den(health.age_score) > 1

\* The status the scorer reads: the record's, "active" when it has none.
StatusOf == IF "status" \in DOMAIN device THEN device["status"] ELSE "active"

\* daily_cost <= bound and years_used <= half_lives * lifespan / 2, in whole
\* numbers: price in cents, bound in tenths, years_used = days / 365.25.
CostAtMost(b10) == device["price"] <= 10 * b10 * health.days_used
CostAtLeast(b10) == device["price"] >= 10 * b10 * health.days_used
AgeAtMostHalf == 8 * health.days_used <= 1461 * health.benchmark.lifespan_years
AgeAtLeastThreeHalves ==
    8 * health.days_used >= 3 * 1461 * health.benchmark.lifespan_years

TierOf(score) ==
    CASE score >= 850                -> <<"epic", "continue">>
      [] score >= 700 /\ score < 850 -> <<"excellent", "continue">>
      [] score >= 550 /\ score < 700 -> <<"good", "monitor">>
      [] score >= 400 /\ score < 550 -> <<"fair", "evaluate">>
      [] score < 400                 -> <<"replace", "replace">>

\* C7: the report gives each device the tier of its one-decimal
\* health_score: >= 85 epic/continue, [70, 85) excellent/continue, [55, 70)
\* good/monitor, [40, 55) fair/evaluate, < 40 replace/replace; 85.0 is epic
\* and 84.9 excellent.
C7_RatingTiers ==
    /\ report.kind = "ok" =>
         \A k \in 1..Len(report.results) :
            LET r == report.results[k]
            IN  /\ r.health_score = health.health_score
                /\ <<r.rating, r.action>> = TierOf(r.health_score)
    /\ generate_health_rating(850)[1] = "epic"
    /\ generate_health_rating(849)[1] = "excellent"

\* A device scored exactly 85.0 and rated epic.
C7_Witness ==
    /\ report.kind = "ok"
    /\ report.results[1].health_score = 850
    /\ report.results[1].rating = "epic"

\* C8: the benchmark lookup never fails: a category that is no key of the
\* table, or no category at all, is scored against default (low 1, high
\* 10, lifespan 3) and raises nothing; a category that is a key is scored
\* against its own entry.
C8_BenchmarkFallback ==
    /\ health.kind = "ok" =>
         health.benchmark =
            IF "category" \in DOMAIN device /\ device["category"] \in BenchmarkKeys
            THEN INDUSTRY_BENCHMARKS[device["category"]]
            ELSE Bench(10, 100, 3)
    /\ (/\ report # None
        /\ HasValidDate
        /\ {"id", "name", "price"} \subseteq DOMAIN device) => health.kind = "ok"

\* A category that is no key, scored against default.
C8_Witness ==
    /\ health.kind = "ok"
    /\ "category" \in DOMAIN device
    /\ device["category"] \notin BenchmarkKeys
    /\ health.benchmark = Bench(10, 100, 3)

RequiredFields == {"id", "name", "price", "purchase_date"}

\* C9: calculate_health_score raises, and returns no result, whenever the
\* record lacks one of id, name, price, purchase_date; a record with all
\* four and a valid date never fails, whatever its category and status.
C9_RequiredFields ==
    report # None =>
      /\ ~(RequiredFields \subseteq DOMAIN device) =>
            health.kind = "error" /\ report.kind = "error"
      /\ (RequiredFields \subseteq DOMAIN device /\ HasValidDate) =>
            health.kind = "ok"

\* A record without a name, refused.
C9_Witness ==
    /\ "name" \notin DOMAIN device
    /\ health.kind = "error"
    /\ health.exc = "KeyError"

\* A failed request: any answer but 200, except the 404 that answers
\* sync_to_repo's read of a file that does not exist yet.
Failed(r) ==
    /\ r.status # 200
    /\ ~(r.method = "GET" /\ r.endpoint = "/repos/contents" /\ r.status = 404)

\* C10: whenever a request of a sync run fails, the failure is surfaced:
\* no further request follows the failed one (the run does not go on as if
\* it had succeeded), the run ends with a non-zero exit status, and no
\* request is issued twice.
C10_FailuresSurfaced ==
    /\ \A k \in 1..Len(requests) :
          Failed(requests[k]) =>
             /\ k = Len(requests)
             /\ pc = "done" => exit_code # 0
    /\ \A j, k \in 1..Len(requests) :
          (j # k) => <<requests[j].method, requests[j].endpoint>>
                       # <<requests[k].method, requests[k].endpoint>>


\* The cost-efficiency score of the specification for a price p (cents)
\* over d days against benchmark b, times d * (high10 - low10), which makes
\* it a whole number.
CostTimes(p, d, b) ==
    LET span == b.high10 - b.low10
    IN  IF p <= 10 * b.low10 * d THEN 40 * d * span
        ELSE IF p >= 10 * b.high10 * d THEN 10 * d * span
        ELSE 40 * d * span - 3 * (p - 10 * b.low10 * d)

AgeTimes(d, l) ==
    IF 8 * d <= 1461 * l THEN 30 * 2922 * l
    ELSE IF 8 * d >= 3 * 1461 * l THEN 5 * 2922 * l
    ELSE 30 * 2922 * l - 25 * (8 * d - 1461 * l)

\* The day counts of the record's purchase date at the model's reference
\* dates, clamped as the scorer clamps them.
DayCounts ==
    { Max(1, ToOrdinal(t) - ToOrdinal(device["purchase_date"])) : t \in RefDates }

HasStatus(s) == "status" \in DOMAIN device /\ device["status"] = s

\* C13 as stated: the operational-status component is 30 when the device's
\* status is active, 15 when it is idle, and 5 in every other case.
C13_StatusScoreAsStated ==
    health.kind = "ok" =>
        health.status_score =
            IF HasStatus("active") THEN 30
            ELSE IF HasStatus("idle") THEN 15
            ELSE 5

\* C13 as amended: the operational-status component is 30 when the device's
\* status is active or the record has no status (a missing status is read
\* as active), 15 when it is idle, and 5 in every other case.
C13_StatusScore ==
    health.kind = "ok" =>
        health.status_score =
            IF HasStatus("active") \/ "status" \notin DOMAIN device THEN 30
            ELSE IF HasStatus("idle") THEN 15
            ELSE 5

\* A record without a status, scored 30.
C13_Witness ==
    /\ health.kind = "ok"
    /\ "status" \notin DOMAIN device
    /\ health.status_score = 30


IsRead(r) == r.method = "GET" /\ r.endpoint = "/repos/contents"
IsWrite(r) == r.method = "PUT" /\ r.endpoint = "/repos/contents"

\* C14: sync_to_repo reads the target first; a write follows only a read
\* answered 200 or 404, directly, and carries the content hash that read
\* returned (none after a 404); a read that failed otherwise is followed by
\* no write; one call issues at most one read and one write.
C14_ReadModifyWrite ==
    /\ \A k \in 1..Len(requests) :
         IsWrite(requests[k]) =>
           /\ k > 1
           /\ IsRead(requests[k - 1])
           /\ requests[k - 1].status \in {200, 404}
           /\ requests[k - 1].status = 200 => requests[k].sha = requests[k - 1].got
           /\ requests[k - 1].status = 404 => requests[k].sha = ""
    /\ \A k \in 1..Len(requests) :
         (IsRead(requests[k]) /\ requests[k].status \notin {200, 404}) =>
            k = Len(requests) /\ pc = "done"
    /\ Cardinality({k \in 1..Len(requests) : IsWrite(requests[k])}) <= 1
    /\ Cardinality({k \in 1..Len(requests) : IsRead(requests[k])}) <= 1

\* An update: the write carries the hash the read returned.
C14_Witness ==
    /\ Len(requests) >= 2
    /\ IsWrite(requests[Len(requests)])
    /\ requests[Len(requests)].sha = "a1"
    /\ requests[Len(requests) - 1].got = "a1"


\* C15: for the same purchase date, price and reference date, calculate and
\* calculate_health_score report the same residual_rate and the same
\* residual_value, at every day count, whole-year boundaries included.
C15_OnePolicy ==
    (calc.kind = "ok" /\ health.kind = "ok") =>
        /\ health.days_used = calc.days_used
        /\ health.residual_rate = calc.residual_rate
        /\ health.residual_value \in ReturnedResidual(device["price"], calc.residual_rate)

\* The two disagree on a whole-year boundary: 365 days are one year to
\* calculate (365 / 365) and less than one to the scorer (365 / 365.25).
C15_BoundaryDisagrees ==
    /\ calc.kind = "ok" /\ health.kind = "ok"
    /\ calc.days_used = 365 /\ health.days_used = 365
    /\ calc.residual_rate = 65 /\ health.residual_rate = 80

\* Away from the boundaries the two agree.
C15_OffBoundary ==
    (calc.kind = "ok" /\ health.kind = "ok" /\ calc.days_used % 365 # 0) =>
        /\ health.residual_rate = calc.residual_rate
        /\ health.residual_value \in ReturnedResidual(device["price"], calc.residual_rate)


\* C16: each record of the calculation output is the input record merged
\* with its calculation result so that every input field keeps its input
\* value; the lifecycle status tag survives, so calculate_health_score gives
\* the output record the same operational-status score as the registry record.
C16_MergeKeepsInput ==
    (output.kind = "ok" /\ Len(output.equipment) = 1) =>
        /\ \A f \in DOMAIN device : output.equipment[1][f] = device[f]
        /\ StatusScore(output.equipment[1]) = StatusScore(device)

\* The merged record carries calculate's band label where the registry had
\* the lifecycle tag, and the scorer reads it as neither active nor idle.
C16_StatusOverwritten ==
    /\ output.kind = "ok" /\ Len(output.equipment) = 1
    /\ "status" \in DOMAIN device /\ device["status"] = "active"
    /\ output.equipment[1]["status"] = "growing"
    /\ StatusScore(device) = 30
    /\ StatusScore(output.equipment[1]) = 5

\* Every input field other than those calculate also returns is kept.
C16_OtherFieldsKept ==
    (output.kind = "ok" /\ Len(output.equipment) = 1) =>
        \A f \in DOMAIN device \ {"status", "price", "purchase_date"} :
            output.equipment[1][f] = device[f]


\* C17: every category tag of the registry side (computer, phone, tablet,
\* wearable, smart-home) is a key of INDUSTRY_BENCHMARKS, so a device with
\* such a tag is scored against its own benchmark, not against default.
C17_RegistryTagsAreKeys ==
    (/\ health.kind = "ok"
     /\ "category" \in DOMAIN device
     /\ device["category"] \in RegistryCategories) =>
        /\ device["category"] \in BenchmarkKeys
        /\ health.benchmark = INDUSTRY_BENCHMARKS[device["category"]]

\* No registry tag is a key of the table, and the sample registry's
\* computer is scored against default (1, 10, 3 years).
C17_ScoredAgainstDefault ==
    /\ RegistryCategories \cap BenchmarkKeys = {}
    /\ health.kind = "ok"
    /\ "category" \in DOMAIN device
    /\ device["category"] = "computer"
    /\ health.benchmark = Bench(10, 100, 3)


C18_ReplaceReached ==
    /\ report.kind = "ok"
    /\ report.sell_candidates # << >>
    /\ report.results[1].rating = "replace"

====
